---- MODULE Spec2Model ----
(***************************************************************************)
(* A model of the full voice agent (Deepgram STT + ElevenLabs TTS over     *)
(* Twilio Media Streams): Server.handleSession, the STT callbacks it       *)
(* registers (OnTranscript, OnSpeechStart) and processUserInput.           *)
(*                                                                         *)
(* handleSession runs on its own goroutine.  The STT pipeline invokes the  *)
(* callbacks from its own goroutines while it is running; OnTranscript     *)
(* serialises itself with transcriptMu, OnSpeechStart takes no lock.  The  *)
(* TTS pipeline is seen through the three calls the session makes on it    *)
(* (SynthesizeToConnection, IsActive, Stop) and through the completion of  *)
(* a synthesis.                                                            *)
(***************************************************************************)
EXTENDS Integers, Sequences, FiniteSets, TLC

(* ------------------------------ bounds -------------------------------- *)

\* Total number of STT callbacks (OnTranscript + OnSpeechStart) delivered.
MaxEvents == 2

\* Number of goroutines that may be inside OnTranscript at the same time.
NumTranscribers == 2

\* The connections the transport delivers to handleConnections.
NumConns == 2

Transcribers == 1..NumTranscribers

(* ------------------------------ strings ------------------------------- *)
\* A Go string is a sequence of one-character strings.

Upper == <<"A", "B", "C", "D", "E", "F", "G", "H", "I", "J", "K", "L", "M",
          "N", "O", "P", "Q", "R", "S", "T", "U", "V", "W", "X", "Y", "Z">>
Lower == <<"a", "b", "c", "d", "e", "f", "g", "h", "i", "j", "k", "l", "m",
          "n", "o", "p", "q", "r", "s", "t", "u", "v", "w", "x", "y", "z">>

\* strings.ToLower, one character
LowerChar(c) ==
    IF \E i \in 1..Len(Upper) : Upper[i] = c
    THEN Lower[CHOOSE i \in 1..Len(Upper) : Upper[i] = c]
    ELSE c

\* strings.ToLower
ToLower(s) == [i \in 1..Len(s) |-> LowerChar(s[i])]

IsSpace(c) == c = " "

\* strings.TrimSpace: drop the leading and the trailing white space
TrimSpace(s) ==
    LET idx == {i \in 1..Len(s) : ~IsSpace(s[i])}
    IN  IF idx = {} THEN <<>>
        ELSE LET lo == CHOOSE i \in idx : \A j \in idx : i <= j
                 hi == CHOOSE i \in idx : \A j \in idx : j <= i
             IN  SubSeq(s, lo, hi)

\* strings.Contains
Contains(s, sub) ==
    \E i \in 1..(Len(s) - Len(sub) + 1) : SubSeq(s, i, i + Len(sub) - 1) = sub

\* The final transcripts the STT engine may deliver.
Transcripts == { <<"H", "i">>, <<" ", "b", " ">>, <<" ">> }

\* The interim transcripts it may deliver.
Interims == { <<"H">> }

(* -------------------------- processUserInput -------------------------- *)
\* A reply is the sequence of the pieces fmt.Sprintf joins.

HelloReply   == <<"Hello! It's nice to hear from you.", " What would you like to talk about?">>
HowReply     == <<"I'm doing great, thank you for asking! I'm here and ready to help you with anything you need.">>
ByeReply     == <<"Goodbye! It was nice talking with you. Have a wonderful day!">>
HelpReply    == <<"I can help you with various tasks. Just tell me what you need, and I'll do my best to assist you.">>
WeatherReply == <<"I don't have access to real-time weather data, but you could try asking a weather service for accurate forecasts.">>
TimeReply    == <<"The current time is ", "3:04 PM", ".">>
EchoReply(input) ==
    <<"I heard you say: ">> \o input \o <<". Is there anything specific you'd like me to help you with?">>

\* processUserInput with no default case: nothing is said when no keyword
\* matches
processUserInput_NoDefault(in) ==
    LET input == ToLower(in)
    IN  IF Contains(input, <<"h","e","l","l","o">>) \/ Contains(input, <<"h","i">>)
        THEN HelloReply
        ELSE IF Contains(input, <<"h","o","w"," ","a","r","e"," ","y","o","u">>)
        THEN HowReply
        ELSE IF Contains(input, <<"g","o","o","d","b","y","e">>) \/ Contains(input, <<"b","y","e">>)
        THEN ByeReply
        ELSE IF Contains(input, <<"h","e","l","p">>)
        THEN HelpReply
        ELSE IF Contains(input, <<"w","e","a","t","h","e","r">>)
        THEN WeatherReply
        ELSE IF Contains(input, <<"t","i","m","e">>)
        THEN TimeReply
        ELSE <<>>

\* processUserInput whose first case tests "hi" only
processUserInput_HiOnly(in) ==
    LET input == ToLower(in)
    IN  IF Contains(input, <<"h","i">>)
        THEN HelloReply
        ELSE IF Contains(input, <<"h","o","w"," ","a","r","e"," ","y","o","u">>)
        THEN HowReply
        ELSE IF Contains(input, <<"g","o","o","d","b","y","e">>) \/ Contains(input, <<"b","y","e">>)
        THEN ByeReply
        ELSE IF Contains(input, <<"h","e","l","p">>)
        THEN HelpReply
        ELSE IF Contains(input, <<"w","e","a","t","h","e","r">>)
        THEN WeatherReply
        ELSE IF Contains(input, <<"t","i","m","e">>)
        THEN TimeReply
        ELSE EchoReply(input)

\* processUserInput testing "how are you" before "hello" and "hi"
processUserInput_HowFirst(in) ==
    LET input == ToLower(in)
    IN  IF Contains(input, <<"h","o","w"," ","a","r","e"," ","y","o","u">>)
        THEN HowReply
        ELSE IF Contains(input, <<"h","e","l","l","o">>) \/ Contains(input, <<"h","i">>)
        THEN HelloReply
        ELSE IF Contains(input, <<"g","o","o","d","b","y","e">>) \/ Contains(input, <<"b","y","e">>)
        THEN ByeReply
        ELSE IF Contains(input, <<"h","e","l","p">>)
        THEN HelpReply
        ELSE IF Contains(input, <<"w","e","a","t","h","e","r">>)
        THEN WeatherReply
        ELSE IF Contains(input, <<"t","i","m","e">>)
        THEN TimeReply
        ELSE EchoReply(input)

\* lines 313-340: the switch takes the first case that matches
processUserInput(in) ==
    LET input == ToLower(in)
    IN  IF Contains(input, <<"h","e","l","l","o">>) \/ Contains(input, <<"h","i">>)
        THEN HelloReply
        ELSE IF Contains(input, <<"h","o","w"," ","a","r","e"," ","y","o","u">>)
        THEN HowReply
        ELSE IF Contains(input, <<"g","o","o","d","b","y","e">>) \/ Contains(input, <<"b","y","e">>)
        THEN ByeReply
        ELSE IF Contains(input, <<"h","e","l","p">>)
        THEN HelpReply
        ELSE IF Contains(input, <<"w","e","a","t","h","e","r">>)
        THEN WeatherReply
        ELSE IF Contains(input, <<"t","i","m","e">>)
        THEN TimeReply
        ELSE EchoReply(input)

greeting == <<"Hello! I'm your voice assistant powered by Deepgram and ElevenLabs. How can I help you today?">>

(* ------------------------------- state -------------------------------- *)

VARIABLES
    ctxCancelled,       \* main: cancel() has run on the process-wide context
    pc,                 \* handleSession: the statement it is at
    sttRunning,         \* sttPipeline started and not yet stopped
    closeCount,         \* number of conn.Close() calls
    closeCause,         \* which case of the select woke handleSession
    cleanupLog,         \* the cleanup calls made so far, in order
    pendingTranscript,  \* strings.Builder pendingTranscript
    transcriptMu,       \* sync.Mutex transcriptMu: 0 free, else the holder
    cb,                 \* the goroutines inside OnTranscript
    spc,                \* the goroutine inside OnSpeechStart
    sObserved,          \* the synthesis IsActive() reported to OnSpeechStart
    ttsActive,          \* the synthesis in flight (index in ttsRequests), 0 none
    ttsRequests,        \* the SynthesizeToConnection calls made so far
    processCalls,       \* the arguments of the processUserInput calls so far
    lastFinal,          \* the final transcript appended last, as <<text>>
    nEvents,            \* STT callbacks delivered
    nFinal,             \* of which OnTranscript(_, true)
    nErrors,            \* of which OnError
    inputs,             \* the final transcripts the caller's speech gives
    sess                \* the sessions of a server with several connections

vars == <<ctxCancelled, pc, sttRunning, closeCount, closeCause, cleanupLog,
          pendingTranscript, transcriptMu, cb, spc, sObserved, ttsActive,
          ttsRequests, processCalls, lastFinal, nEvents, nFinal,
          nErrors, inputs, sess>>

mainVars == <<pc, sttRunning, closeCount, closeCause, cleanupLog>>
sttVars  == <<pendingTranscript, transcriptMu, cb, lastFinal>>
cntVars  == <<nEvents, nFinal, nErrors>>
ttsVars  == <<ttsActive, ttsRequests>>
speechVars == <<spc, sObserved>>

\* transport.EventType: EventDisconnected and the others
EventTypes == {"Disconnected", "Other"}

IdleCb == [pc |-> "idle", text |-> <<>>, isFinal |-> FALSE, fullText |-> <<>>,
           response |-> <<>>, prev |-> <<>>, calls |-> 0, synths |-> 0,
           afterBarge |-> FALSE, seq |-> 0]

\* sessionCtx is a child of ctx; the deferred cancelSession runs at return
SessionCtxDone == ctxCancelled \/ pc = "returned"

connClosed == closeCount > 0

\* The connections, and a session's state: conn tells where the connection
\* is, pc where handleSession is, ot where the session's OnTranscript is.
Conns == 1..NumConns

NoSession == [conn |-> "none", pc |-> "none", ot |-> "idle", buf |-> <<>>,
              mu |-> FALSE, stt |-> FALSE, tts |-> FALSE, closed |-> 0]

InitWith(finals) ==
    /\ inputs = finals
    /\ sess = [c \in Conns |-> NoSession]
    /\ ctxCancelled = FALSE
    /\ pc = "startSTT"
    /\ sttRunning = FALSE
    /\ closeCount = 0
    /\ closeCause = "none"
    /\ cleanupLog = <<>>
    /\ pendingTranscript = <<>>
    /\ transcriptMu = 0
    /\ cb = [t \in Transcribers |-> IdleCb]
    /\ spc = "idle"
    /\ sObserved = 0
    /\ ttsActive = 0
    /\ ttsRequests = <<>>
    /\ processCalls = <<>>
    /\ lastFinal = <<>>
    /\ nEvents = 0
    /\ nFinal = 0
    /\ nErrors = 0

Init == InitWith(Transcripts)

\* The caller says "hello" and nothing else.
Hello == <<"h", "e", "l", "l", "o">>

HelloInit == InitWith({Hello})

(* ---------------------------- TTS pipeline ---------------------------- *)

\* ttsPipeline.SynthesizeToConnection(sessionCtx, text, conn): the request is
\* made; when the call succeeds the new synthesis is the one in flight.
Synthesize(by, text, ok) ==
    /\ ttsRequests' = Append(ttsRequests, [by |-> by, text |-> text])
    /\ ttsActive' = IF ok THEN Len(ttsRequests) + 1 ELSE ttsActive

\* ttsPipeline.IsActive()
IsActive == ttsActive # 0

\* ttsPipeline.Stop(): whatever is in flight is cancelled
Stop ==
    /\ ttsActive' = 0
    /\ UNCHANGED ttsRequests

\* The synthesis in flight ends: the OnComplete hook, or on a failure the
\* OnError hook, is called (lines 214-219); both only log.
TTSComplete ==
    /\ ttsActive # 0
    /\ ttsActive' = 0
    /\ UNCHANGED <<inputs, sess, ctxCancelled, mainVars, sttVars, speechVars, ttsRequests,
                   processCalls, cntVars>>

(* ------------------------------- main --------------------------------- *)

\* The signal goroutine: <-sigCh; cancel()
CancelCtx ==
    /\ ~ctxCancelled
    /\ ctxCancelled' = TRUE
    /\ UNCHANGED <<inputs, sess, mainVars, sttVars, speechVars, ttsVars, processCalls, cntVars>>

(* --------------------------- handleSession ---------------------------- *)

\* sttPipeline.StartFromConnection succeeds
StartSTT ==
    /\ pc = "startSTT"
    /\ pc' = "greeting"
    /\ sttRunning' = TRUE
    /\ UNCHANGED <<inputs, sess, ctxCancelled, closeCount, closeCause, cleanupLog, sttVars,
                   speechVars, ttsVars, processCalls, cntVars>>

\* StartSTTFail without the return of line 286: the session goes on
StartSTTFail_NoReturn ==
    /\ pc = "startSTT"
    /\ pc' = "greeting"
    /\ closeCount' = closeCount + 1
    /\ UNCHANGED <<inputs, sess, ctxCancelled, sttRunning, closeCause, cleanupLog, sttVars,
                   speechVars, ttsVars, processCalls, cntVars>>

\* StartSTTFail returning without the conn.Close() of line 285
StartSTTFail_NoClose ==
    /\ pc = "startSTT"
    /\ pc' = "returned"
    /\ UNCHANGED <<inputs, sess, ctxCancelled, sttRunning, closeCount, closeCause, cleanupLog,
                   sttVars, speechVars, ttsVars, processCalls, cntVars>>

\* sttPipeline.StartFromConnection fails: close the connection and return
StartSTTFail ==
    /\ pc = "startSTT"
    /\ pc' = "returned"
    /\ closeCount' = closeCount + 1
    /\ UNCHANGED <<inputs, sess, ctxCancelled, sttRunning, closeCause, cleanupLog, sttVars,
                   speechVars, ttsVars, processCalls, cntVars>>

\* SendGreeting giving the session up when the greeting cannot be sent
SendGreeting_FatalOnError ==
    /\ pc = "greeting"
    /\ \E ok \in BOOLEAN :
          /\ Synthesize("greeting", greeting, ok)
          /\ pc' = IF ok THEN "select" ELSE "returned"
          /\ closeCount' = IF ok THEN closeCount ELSE closeCount + 1
    /\ UNCHANGED <<inputs, sess, ctxCancelled, sttRunning, closeCause, cleanupLog,
                   sttVars, speechVars, processCalls, cntVars>>

\* Send initial greeting (the error is only logged)
SendGreeting ==
    /\ pc = "greeting"
    /\ \E ok \in BOOLEAN : Synthesize("greeting", greeting, ok)
    /\ pc' = "select"
    /\ UNCHANGED <<inputs, sess, ctxCancelled, sttRunning, closeCount, closeCause, cleanupLog,
                   sttVars, speechVars, processCalls, cntVars>>

\* CleanupOrder closing the connection before the pipelines are stopped
CleanupOrder_CloseFirst == <<"connClose", "sttStop", "ttsStop">>

\* The cleanup calls, in program order.
CleanupOrder == <<"sttStop", "ttsStop", "connClose">>

CleanupNext(step) ==
    IF \E i \in 1..(Len(CleanupOrder) - 1) : CleanupOrder[i] = step
    THEN CleanupOrder[(CHOOSE i \in 1..Len(CleanupOrder) : CleanupOrder[i] = step) + 1]
    ELSE "returned"

\* SelectCtxDone of a select that has no <-sessionCtx.Done() case
SelectCtxDone_NoDoneCase ==
    /\ FALSE
    /\ UNCHANGED vars

\* select: case <-sessionCtx.Done()
SelectCtxDone ==
    /\ pc = "select"
    /\ SessionCtxDone
    /\ pc' = CleanupOrder[1]
    /\ closeCause' = "ctx"
    /\ UNCHANGED <<inputs, sess, ctxCancelled, sttRunning, closeCount, cleanupLog, sttVars,
                   speechVars, ttsVars, processCalls, cntVars>>

\* select: case event := <-conn.Events(); an EventDisconnected is logged, and
\* the select (which is in no loop) is left whatever the event's type
SelectEvent ==
    /\ pc = "select"
    /\ \E type \in EventTypes :
          /\ pc' = CleanupOrder[1]
          /\ closeCause' = type
    /\ UNCHANGED <<inputs, sess, ctxCancelled, sttRunning, closeCount, cleanupLog, sttVars,
                   speechVars, ttsVars, processCalls, cntVars>>

\* sttPipeline.Stop()
CleanupSTTStop ==
    /\ pc = "sttStop"
    /\ sttRunning' = FALSE
    /\ cleanupLog' = Append(cleanupLog, "sttStop")
    /\ pc' = CleanupNext("sttStop")
    /\ UNCHANGED <<inputs, sess, ctxCancelled, closeCount, closeCause, sttVars, speechVars,
                   ttsVars, processCalls, cntVars>>

\* ttsPipeline.Stop()
CleanupTTSStop ==
    /\ pc = "ttsStop"
    /\ Stop
    /\ cleanupLog' = Append(cleanupLog, "ttsStop")
    /\ pc' = CleanupNext("ttsStop")
    /\ UNCHANGED <<inputs, sess, ctxCancelled, sttRunning, closeCount, closeCause, sttVars,
                   speechVars, processCalls, cntVars>>

\* CleanupConnClose returning without closing the connection
CleanupConnClose_NoClose ==
    /\ pc = "connClose"
    /\ pc' = CleanupNext("connClose")
    /\ UNCHANGED <<inputs, sess, ctxCancelled, sttRunning, closeCount, closeCause, cleanupLog,
                   sttVars, speechVars, ttsVars, processCalls, cntVars>>

\* _ = conn.Close(); return
CleanupConnClose ==
    /\ pc = "connClose"
    /\ closeCount' = closeCount + 1
    /\ cleanupLog' = Append(cleanupLog, "connClose")
    /\ pc' = CleanupNext("connClose")
    /\ UNCHANGED <<inputs, sess, ctxCancelled, sttRunning, closeCause, sttVars, speechVars,
                   ttsVars, processCalls, cntVars>>

HandleSession ==
    \/ StartSTT
    \/ StartSTTFail
    \/ SendGreeting
    \/ SelectCtxDone
    \/ SelectEvent
    \/ CleanupSTTStop
    \/ CleanupTTSStop
    \/ CleanupConnClose

(* ---------------------------- OnTranscript ---------------------------- *)

\* FlushFinal without the Reset of line 242
FlushFinal_NoReset(buf, transcript) ==
    [fullText |-> TrimSpace(buf \o transcript), buf |-> buf \o transcript]

\* lines 240-242: WriteString, TrimSpace(String()), Reset
FlushFinal(buf, transcript) ==
    [fullText |-> TrimSpace(buf \o transcript), buf |-> <<>>]

\* KeepInterim accumulating the interim text in the buffer
KeepInterim_Appends(buf, transcript) == buf \o transcript

\* lines 257-260: an interim transcript is only logged
KeepInterim(buf, transcript) == buf

\* HasText without the test of line 244
HasText_Always(fullText) == TRUE

\* line 244: if fullText != ""
HasText(fullText) == fullText # <<>>

\* The STT pipeline invokes OnTranscript(transcript, isFinal) on goroutine t.
OnTranscriptCall(t) ==
    /\ sttRunning
    /\ nEvents < MaxEvents
    /\ cb[t].pc = "idle"
    /\ \E isFinal \in BOOLEAN :
       \E transcript \in (IF isFinal THEN inputs ELSE Interims) :
          /\ cb' = [cb EXCEPT ![t] = [IdleCb EXCEPT !.pc = "lock",
                                                    !.text = transcript,
                                                    !.isFinal = isFinal,
                                                    !.afterBarge = (spc = "stop"),
                                                    !.seq = nEvents + 1]]
          /\ nFinal' = IF isFinal THEN nFinal + 1 ELSE nFinal
    /\ nEvents' = nEvents + 1
    /\ UNCHANGED <<inputs, sess, nErrors, ctxCancelled, mainVars, pendingTranscript, transcriptMu,
                   lastFinal, speechVars, ttsVars, processCalls>>

\* OnTranscriptLock entering without waiting for the mutex to be free
OnTranscriptLock_NoWait(t) ==
    /\ cb[t].pc = "lock"
    /\ transcriptMu' = t
    /\ cb' = [cb EXCEPT ![t].pc = "body"]
    /\ UNCHANGED <<inputs, sess, ctxCancelled, mainVars, pendingTranscript, lastFinal,
                   speechVars, ttsVars, processCalls, cntVars>>

\* transcriptMu.Lock()
OnTranscriptLock(t) ==
    /\ cb[t].pc = "lock"
    /\ transcriptMu = 0
    /\ transcriptMu' = t
    /\ cb' = [cb EXCEPT ![t].pc = "body"]
    /\ UNCHANGED <<inputs, sess, ctxCancelled, mainVars, pendingTranscript, lastFinal,
                   speechVars, ttsVars, processCalls, cntVars>>

\* lines 238-244 and 257-260: the buffer is used, under the lock
OnTranscriptBody(t) ==
    /\ cb[t].pc = "body"
    /\ IF cb[t].isFinal
       THEN LET f == FlushFinal(pendingTranscript, cb[t].text)
            IN  /\ pendingTranscript' = f.buf
                /\ lastFinal' = <<cb[t].text>>
                /\ cb' = [cb EXCEPT ![t].fullText = f.fullText,
                                    ![t].prev = lastFinal,
                                    ![t].pc = IF HasText(f.fullText)
                                              THEN "process" ELSE "unlock"]
       ELSE /\ pendingTranscript' = KeepInterim(pendingTranscript, cb[t].text)
            /\ cb' = [cb EXCEPT ![t].pc = "unlock"]
            /\ UNCHANGED lastFinal
    /\ UNCHANGED <<inputs, sess, ctxCancelled, mainVars, transcriptMu, speechVars, ttsVars,
                   processCalls, cntVars>>

\* line 250: response := processUserInput(fullText)
OnTranscriptProcess(t) ==
    /\ cb[t].pc = "process"
    /\ processCalls' = Append(processCalls, cb[t].fullText)
    /\ cb' = [cb EXCEPT ![t].response = processUserInput(cb[t].fullText),
                        ![t].calls = @ + 1,
                        ![t].pc = "synth"]
    /\ UNCHANGED <<inputs, sess, ctxCancelled, mainVars, pendingTranscript, transcriptMu,
                   lastFinal, speechVars, ttsVars, cntVars>>

\* lines 253-255: ttsPipeline.SynthesizeToConnection(sessionCtx, response, conn)
OnTranscriptSynth(t) ==
    /\ cb[t].pc = "synth"
    /\ \E ok \in BOOLEAN : Synthesize("transcript", cb[t].response, ok)
    /\ cb' = [cb EXCEPT ![t].synths = @ + 1, ![t].pc = "unlock"]
    /\ UNCHANGED <<inputs, sess, ctxCancelled, mainVars, pendingTranscript, transcriptMu,
                   lastFinal, speechVars, processCalls, cntVars>>

\* return: the deferred transcriptMu.Unlock()
OnTranscriptReturn(t) ==
    /\ cb[t].pc = "unlock"
    /\ transcriptMu' = 0
    /\ cb' = [cb EXCEPT ![t] = IdleCb]
    /\ UNCHANGED <<inputs, sess, ctxCancelled, mainVars, pendingTranscript, lastFinal,
                   speechVars, ttsVars, processCalls, cntVars>>

OnTranscript ==
    \E t \in Transcribers :
        \/ OnTranscriptCall(t)
        \/ OnTranscriptLock(t)
        \/ OnTranscriptBody(t)
        \/ OnTranscriptProcess(t)
        \/ OnTranscriptSynth(t)
        \/ OnTranscriptReturn(t)

(* ---------------------------- OnSpeechStart --------------------------- *)

\* The STT pipeline invokes OnSpeechStart: lines 263-266, up to the result of
\* ttsPipeline.IsActive()
OnSpeechStartCheck ==
    /\ sttRunning
    /\ nEvents < MaxEvents
    /\ spc = "idle"
    /\ nEvents' = nEvents + 1
    /\ IF IsActive
       THEN /\ spc' = "stop"
            /\ sObserved' = ttsActive
       ELSE UNCHANGED speechVars
    /\ UNCHANGED <<inputs, sess, nErrors, ctxCancelled, mainVars, sttVars, ttsVars, processCalls,
                   nFinal>>

\* line 267: ttsPipeline.Stop(), and return
OnSpeechStartStop ==
    /\ spc = "stop"
    /\ Stop
    /\ spc' = "idle"
    /\ sObserved' = 0
    /\ cb' = [t \in Transcribers |-> [cb[t] EXCEPT !.afterBarge = FALSE]]
    /\ UNCHANGED <<inputs, sess, ctxCancelled, mainVars, pendingTranscript, transcriptMu,
                   lastFinal, processCalls, cntVars>>

OnSpeechStart ==
    \/ OnSpeechStartCheck
    \/ OnSpeechStartStop

(* ------------------------------ OnError ------------------------------- *)

\* OnSttError stopping the reply in flight
OnSttError_StopsTTS ==
    /\ sttRunning
    /\ nEvents < MaxEvents
    /\ nEvents' = nEvents + 1
    /\ nErrors' = nErrors + 1
    /\ Stop
    /\ UNCHANGED <<inputs, sess, ctxCancelled, mainVars, sttVars, speechVars,
                   processCalls, nFinal>>

\* The STT pipeline invokes OnError(err): lines 275-277, the error is logged
OnSttError ==
    /\ sttRunning
    /\ nEvents < MaxEvents
    /\ nEvents' = nEvents + 1
    /\ nErrors' = nErrors + 1
    /\ UNCHANGED <<inputs, sess, ctxCancelled, mainVars, sttVars, speechVars, ttsVars,
                   processCalls, nFinal>>

(* --------------------------- specification ---------------------------- *)

Next ==
    \/ CancelCtx
    \/ HandleSession
    \/ OnTranscript
    \/ OnSpeechStart
    \/ OnSttError
    \/ TTSComplete

Spec == Init /\ [][Next]_vars

HelloSpec == HelloInit /\ [][Next]_vars

\* handleSession's goroutine keeps running: every call it makes returns and
\* the select is left once sessionCtx is done.  Nothing makes the transport
\* deliver an event.  A synthesis in flight ends.
Fairness ==
    /\ WF_vars(StartSTT \/ StartSTTFail)
    /\ WF_vars(SendGreeting)
    /\ WF_vars(SelectCtxDone)
    /\ WF_vars(CleanupSTTStop)
    /\ WF_vars(CleanupTTSStop)
    /\ WF_vars(CleanupConnClose)
    /\ WF_vars(TTSComplete)

\* The lifecycle does not look at what the caller says: one final text is
\* enough here.
LiveSpec == HelloInit /\ [][Next]_vars /\ Fairness

(* --------------------- processUserInput, on its own -------------------- *)

\* What a caller may say in one utterance: up to MaxWords of these, with a
\* space between them.
MaxWords == 2

Words ==
    { <<"h","e","l","l","o">>,
      <<"H","i">>,
      <<"h","i">>,
      <<"h","o","w"," ","a","r","e"," ","y","o","u">>,
      <<"B","Y","E">>,
      <<"b","y","e">>,
      <<"h","e","l","p">>,
      <<"W","e","a","t","h","e","r">>,
      <<"t","i","m","e">>,
      <<"o","k">> }

RECURSIVE JoinWords(_)
JoinWords(ws) ==
    IF Len(ws) = 1 THEN ws[1] ELSE ws[1] \o <<" ">> \o JoinWords(Tail(ws))

Utterances ==
    { JoinWords(ws) : ws \in UNION { [1..n -> Words] : n \in 1..MaxWords } }

\* OnTranscript, on goroutine 1, has flushed the caller's first utterance and
\* is at line 250, the greeting still being spoken.
ReplyInit ==
    \E x \in Utterances :
        /\ inputs = {x}
        /\ sess = [c \in Conns |-> NoSession]
        /\ ctxCancelled = FALSE
        /\ pc = "select"
        /\ sttRunning = TRUE
        /\ closeCount = 0
        /\ closeCause = "none"
        /\ cleanupLog = <<>>
        /\ pendingTranscript = <<>>
        /\ transcriptMu = 1
        /\ cb = [t \in Transcribers |->
                  IF t = 1
                  THEN [IdleCb EXCEPT !.pc = "process", !.text = x,
                                      !.isFinal = TRUE, !.fullText = x, !.seq = 1]
                  ELSE IdleCb]
        /\ spc = "idle"
        /\ sObserved = 0
        /\ ttsActive = 1
        /\ ttsRequests = << [by |-> "greeting", text |-> greeting] >>
        /\ processCalls = <<>>
        /\ lastFinal = <<x>>
        /\ nEvents = 1
        /\ nFinal = 1
        /\ nErrors = 0

\* lines 250-256: the reply is computed, handed to the TTS pipeline, and
\* OnTranscript returns.
ReplyNext ==
    \E t \in Transcribers :
        \/ OnTranscriptProcess(t)
        \/ OnTranscriptSynth(t)
        \/ OnTranscriptReturn(t)

ReplySpec == ReplyInit /\ [][ReplyNext]_vars

(* ------------------ several sessions of the full agent ----------------- *)
\* handleSession's state lives in its local variables (lines 205-232), one
\* copy per call; sess[c] is the copy of the session of connection c.  One
\* OnTranscript at a time is followed in each session, and OnSpeechStart is
\* taken in one step.

singleVars == <<inputs, mainVars, sttVars, speechVars, ttsVars, processCalls, cntVars>>

\* What a caller says.
Said == <<"H", "i">>

\* handleConnections, lines 194-195: conn := <-connCh; go s.handleSession
Accept(c) ==
    /\ sess[c].conn = "none"
    /\ sess' = [sess EXCEPT ![c].conn = "session", ![c].pc = "startSTT"]
    /\ UNCHANGED <<ctxCancelled, singleVars>>

\* handleConnections, lines 192-193: case <-ctx.Done(): return; what is still
\* in the channel is left there
HandleConnectionsReturn ==
    /\ ctxCancelled
    /\ \E c \in Conns : sess[c].conn = "none"
    /\ sess' = [c \in Conns |->
                  IF sess[c].conn = "none"
                  THEN [sess[c] EXCEPT !.conn = "left"] ELSE sess[c]]
    /\ UNCHANGED <<ctxCancelled, singleVars>>

\* lines 280-287
SessionStartSTT(c) ==
    /\ sess[c].pc = "startSTT"
    /\ \/ sess' = [sess EXCEPT ![c].pc = "greeting", ![c].stt = TRUE]
       \/ sess' = [sess EXCEPT ![c].pc = "returned", ![c].closed = @ + 1]
    /\ UNCHANGED <<ctxCancelled, singleVars>>

\* lines 289-293
SessionGreeting(c) ==
    /\ sess[c].pc = "greeting"
    /\ \E ok \in BOOLEAN :
          sess' = [sess EXCEPT ![c].pc = "select", ![c].tts = (ok \/ @)]
    /\ UNCHANGED <<ctxCancelled, singleVars>>

\* lines 296-302: sessionCtx is done, or the connection has an event
SessionSelect(c) ==
    /\ sess[c].pc = "select"
    /\ sess' = [sess EXCEPT ![c].pc = "sttStop"]
    /\ UNCHANGED <<ctxCancelled, singleVars>>

\* lines 305-307
SessionCleanup(c) ==
    /\ \/ /\ sess[c].pc = "sttStop"
          /\ sess' = [sess EXCEPT ![c].pc = "ttsStop", ![c].stt = FALSE]
       \/ /\ sess[c].pc = "ttsStop"
          /\ sess' = [sess EXCEPT ![c].pc = "connClose", ![c].tts = FALSE]
       \/ /\ sess[c].pc = "connClose"
          /\ sess' = [sess EXCEPT ![c].pc = "returned", ![c].closed = @ + 1]
    /\ UNCHANGED <<ctxCancelled, singleVars>>

\* The session's STT pipeline calls OnTranscript(Said, true)
SessionTranscriptCall(c) ==
    /\ sess[c].stt
    /\ sess[c].ot = "idle"
    /\ sess' = [sess EXCEPT ![c].ot = "lock"]
    /\ UNCHANGED <<ctxCancelled, singleVars>>

\* line 235
SessionTranscriptLock(c) ==
    /\ sess[c].ot = "lock"
    /\ ~sess[c].mu
    /\ sess' = [sess EXCEPT ![c].ot = "write", ![c].mu = TRUE]
    /\ UNCHANGED <<ctxCancelled, singleVars>>

\* SessionTranscriptWrite on a buffer that all the sessions share
SessionTranscriptWrite_SharedBuffer(c) ==
    /\ sess[c].ot = "write"
    /\ sess' = [d \in Conns |->
                  IF d = c
                  THEN [sess[d] EXCEPT !.ot = "flush", !.buf = sess[c].buf \o Said]
                  ELSE [sess[d] EXCEPT !.buf = sess[c].buf \o Said]]
    /\ UNCHANGED <<ctxCancelled, singleVars>>

\* line 240: pendingTranscript.WriteString(transcript)
SessionTranscriptWrite(c) ==
    /\ sess[c].ot = "write"
    /\ sess' = [sess EXCEPT ![c].ot = "flush", ![c].buf = @ \o Said]
    /\ UNCHANGED <<ctxCancelled, singleVars>>

\* lines 241-255: the buffer is taken and reset, the reply is synthesized
SessionTranscriptFlush(c) ==
    /\ sess[c].ot = "flush"
    /\ \E ok \in BOOLEAN :
          sess' = [sess EXCEPT ![c].ot = "unlock", ![c].buf = <<>>,
                               ![c].tts = (ok \/ @)]
    /\ UNCHANGED <<ctxCancelled, singleVars>>

\* line 236: the deferred Unlock
SessionTranscriptReturn(c) ==
    /\ sess[c].ot = "unlock"
    /\ sess' = [sess EXCEPT ![c].ot = "idle", ![c].mu = FALSE]
    /\ UNCHANGED <<ctxCancelled, singleVars>>

\* lines 263-269: barge-in
SessionSpeechStart(c) ==
    /\ sess[c].stt
    /\ sess[c].tts
    /\ sess' = [sess EXCEPT ![c].tts = FALSE]
    /\ UNCHANGED <<ctxCancelled, singleVars>>

\* The synthesis in flight in the session ends.
SessionTTSComplete(c) ==
    /\ sess[c].tts
    /\ sess' = [sess EXCEPT ![c].tts = FALSE]
    /\ UNCHANGED <<ctxCancelled, singleVars>>

\* Everything that happens in, or to, the session of connection c.
SessionEvent(c) ==
    \/ SessionStartSTT(c)
    \/ SessionGreeting(c)
    \/ SessionSelect(c)
    \/ SessionCleanup(c)
    \/ SessionTranscriptCall(c)
    \/ SessionTranscriptLock(c)
    \/ SessionTranscriptWrite(c)
    \/ SessionTranscriptFlush(c)
    \/ SessionTranscriptReturn(c)
    \/ SessionSpeechStart(c)
    \/ SessionTTSComplete(c)

SessionsNext ==
    \/ CancelCtx
    \/ HandleConnectionsReturn
    \/ \E c \in Conns : Accept(c) \/ SessionEvent(c)

SessionsSpec == Init /\ [][SessionsNext]_vars

(* ------------------------- the TTS-only agent -------------------------- *)
\* twilio-elevenlabs-voice-agent: handleSession speaks a greeting and waits
\* for the process-wide context.  sess[c] is again the session of connection
\* c; its fields ot, buf, mu and stt are not used.

\* handleConnections: conn := <-connCh; go s.handleSession(ctx, conn)
TtsOnlyAccept(c) ==
    /\ sess[c].conn = "none"
    /\ sess' = [sess EXCEPT ![c].conn = "session", ![c].pc = "greeting"]
    /\ UNCHANGED <<ctxCancelled, singleVars>>

\* handleConnections: case <-ctx.Done(): return
TtsOnlyConnectionsReturn ==
    /\ ctxCancelled
    /\ \E c \in Conns : sess[c].conn = "none"
    /\ sess' = [c \in Conns |->
                  IF sess[c].conn = "none"
                  THEN [sess[c] EXCEPT !.conn = "left"] ELSE sess[c]]
    /\ UNCHANGED <<ctxCancelled, singleVars>>

\* ttsPipeline.SynthesizeToConnection(ctx, "Hello! ...", conn); an error is
\* only logged
TtsOnlyGreeting(c) ==
    /\ sess[c].pc = "greeting"
    /\ \E ok \in BOOLEAN :
          sess' = [sess EXCEPT ![c].pc = "wait", ![c].tts = (ok \/ @)]
    /\ UNCHANGED <<ctxCancelled, singleVars>>

\* <-ctx.Done(); _ = conn.Close(); return
TtsOnlyCtxDone(c) ==
    /\ sess[c].pc = "wait"
    /\ ctxCancelled
    /\ sess' = [sess EXCEPT ![c].pc = "returned", ![c].closed = @ + 1]
    /\ UNCHANGED <<ctxCancelled, singleVars>>

\* The caller hangs up: the transport's connection is disconnected.  No
\* statement of handleSession receives from conn.Events().
TtsOnlyDisconnect(c) ==
    /\ sess[c].conn = "session"
    /\ sess[c].closed = 0
    /\ sess' = [sess EXCEPT ![c].conn = "disconnected"]
    /\ UNCHANGED <<ctxCancelled, singleVars>>

\* The greeting has been spoken, or its synthesis has failed.
TtsOnlyTTSComplete(c) ==
    /\ sess[c].tts
    /\ sess' = [sess EXCEPT ![c].tts = FALSE]
    /\ UNCHANGED <<ctxCancelled, singleVars>>

TtsOnlyNext ==
    \/ CancelCtx
    \/ TtsOnlyConnectionsReturn
    \/ \E c \in Conns :
          \/ TtsOnlyAccept(c)
          \/ TtsOnlyGreeting(c)
          \/ TtsOnlyCtxDone(c)
          \/ TtsOnlyDisconnect(c)
          \/ TtsOnlyTTSComplete(c)

\* The goroutines keep running and a synthesis ends; nothing makes the signal
\* arrive, a caller call or hang up.
TtsOnlyFairness ==
    \A c \in Conns :
        /\ WF_vars(TtsOnlyGreeting(c))
        /\ WF_vars(TtsOnlyCtxDone(c))
        /\ WF_vars(TtsOnlyTTSComplete(c))

TtsOnlySpec == Init /\ [][TtsOnlyNext]_vars /\ TtsOnlyFairness

(* ------------------------------- claims ------------------------------- *)

\* Goroutine t hands its utterance to processUserInput in this step.
HandsToProcess(t) == cb[t].pc = "process" /\ cb'[t].pc = "synth"

\* C1: barge-in ordering.  While an OnSpeechStart that found the TTS pipeline
\* active has not yet issued its Stop, no utterance delivered after it is
\* handed to processUserInput and no new synthesis request is submitted.
C1_StopBeforeLaterUtterance ==
    [][spc = "stop" =>
          /\ ttsRequests' = ttsRequests
          /\ \A t \in Transcribers : cb[t].afterBarge => ~HandsToProcess(t)]_vars

\* C3: the Stop that OnSpeechStart issues on behalf of the synthesis it saw
\* active cancels that synthesis or nothing, never a synthesis started later.
C3_StopNeverHitsNewerSynthesis ==
    [][(spc = "stop" /\ spc' = "idle") => ttsActive \in {0, sObserved}]_vars

\* The requests made to the TTS pipeline on behalf of a transcript.
TranscriptRequests == SelectSeq(ttsRequests, LAMBDA r : r.by = "transcript")

\* Goroutine t has used the buffer for its final transcript (lines 240-242).
Flushed(t) == cb[t].isFinal /\ cb[t].pc \in {"process", "synth", "unlock"}

C6_FinalIsOneUtterance ==
    /\ Len(processCalls) <= nFinal
    /\ \A t \in Transcribers :
          (cb[t].isFinal /\ cb[t].pc = "unlock") =>
              /\ pendingTranscript = <<>>
              /\ IF TrimSpace(cb[t].text) # <<>>
                 THEN /\ cb[t].calls = 1
                      /\ processCalls # <<>>
                      /\ processCalls[Len(processCalls)] = TrimSpace(cb[t].text)
                 ELSE /\ cb[t].calls = 0
                      /\ cb[t].synths = 0

\* C6 witness: a Final " b " arrives after a Final " "; one call, with "b".
C6_Witness ==
    \E t \in Transcribers :
        /\ cb[t].pc = "unlock"
        /\ cb[t].isFinal
        /\ cb[t].text = <<" ", "b", " ">>
        /\ cb[t].prev = << <<" ">> >>
        /\ processCalls = << <<"b">> >>
        /\ nFinal = 2

\* The session is Closed: cleanup is over and handleSession has returned.
Closed ==
    /\ pc = "returned"
    /\ ~sttRunning
    /\ ttsActive = 0
    /\ connClosed

\* C7: once the process-wide context is cancelled, whatever the session is
\* doing, the session eventually is Closed.
C7_CancelLeadsToClosed == ctxCancelled ~> Closed

\* C7 witness: the context was cancelled, the select woke on it with an
\* utterance still being answered, and the session got to Closed.
C7_Witness ==
    /\ ctxCancelled
    /\ closeCause = "ctx"
    /\ Closed
    /\ cleanupLog = <<"sttStop", "ttsStop", "connClose">>
    /\ processCalls # <<>>

\* C8: the session leaves its wait for cleanup only because its context is
\* cancelled or because the transport delivered a Disconnected event.
C8_ClosingOnlyOnCancelOrDisconnect ==
    closeCause \in {"none", "ctx", "Disconnected"}

\* C9: after the select, cleanup stops the STT pipeline, then stops the
\* synthesis, then closes the connection, each exactly once; the connection
\* is never closed while the STT pipeline is running.
C9_CleanupInOrder ==
    LET full == <<"sttStop", "ttsStop", "connClose">>
    IN  /\ \E n \in 0..3 : cleanupLog = SubSeq(full, 1, n)
        /\ (pc = "returned" /\ closeCause # "none") =>
               (cleanupLog = full /\ closeCount = 1)
        /\ closeCause = "none" => cleanupLog = <<>>
        /\ connClosed => ~sttRunning

\* C9 witness: the transport disconnected and the three steps have run.
C9_Witness ==
    /\ pc = "returned"
    /\ closeCause = "Disconnected"
    /\ cleanupLog = <<"sttStop", "ttsStop", "connClose">>
    /\ closeCount = 1
    /\ ~sttRunning

\* C10: once cleanup has run and handleSession has returned, no callback
\* calls processUserInput, requests a synthesis or stops a synthesis that
\* is in flight.
C10_ClosedIsTerminal ==
    [][(pc = "returned" /\ cleanupLog # <<>>) =>
          /\ processCalls' = processCalls
          /\ ttsRequests' = ttsRequests
          /\ ~(spc = "stop" /\ spc' = "idle" /\ ttsActive # 0)]_vars

\* C11: the greeting is the first synthesis request of the session: no reply
\* to an utterance is submitted to the TTS pipeline before it.
C11_GreetingIsFirstRequest ==
    ttsRequests # <<>> => ttsRequests[1].by = "greeting"

\* C12: silent caller.  As long as no Final has arrived, the greeting is the
\* only synthesis request and processUserInput has not been called; and once
\* the transport has delivered Disconnected, the session completes its
\* cleanup and closes the connection.
C12_SilentCaller ==
    /\ [](nFinal = 0 =>
            /\ processCalls = <<>>
            /\ Len(ttsRequests) <= 1
            /\ \A i \in 1..Len(ttsRequests) :
                   ttsRequests[i] = [by |-> "greeting", text |-> greeting])
    /\ (closeCause = "Disconnected") ~>
            (/\ pc = "returned"
             /\ cleanupLog = <<"sttStop", "ttsStop", "connClose">>
             /\ connClosed)

\* C12 witness: no STT callback at all, the greeting was requested, the
\* transport disconnected and the session closed the connection.
C12_Witness ==
    /\ nEvents = 0
    /\ ttsRequests = << [by |-> "greeting", text |-> greeting] >>
    /\ processCalls = <<>>
    /\ closeCause = "Disconnected"
    /\ pc = "returned"
    /\ connClosed

\* C13: hello scenario.  The handler of a Final "hello" calls processUserInput
\* once, with "hello"; the reply contains "Hello! It's nice to hear from you."
\* and exactly one synthesis request, carrying that reply, is submitted for
\* the event.
C13_HelloScenario ==
    /\ Len(processCalls) <= nFinal
    /\ Len(TranscriptRequests) <= nFinal
    /\ \A t \in Transcribers :
          (cb[t].isFinal /\ cb[t].pc = "unlock") =>
              /\ cb[t].calls = 1
              /\ cb[t].synths = 1
              /\ processCalls[Len(processCalls)] = Hello
              /\ cb[t].response = processUserInput(Hello)
              /\ Contains(cb[t].response, <<"Hello! It's nice to hear from you.">>)
              /\ TranscriptRequests # <<>>
              /\ TranscriptRequests[Len(TranscriptRequests)].text = cb[t].response

\* C13 witness: one Final "hello" was delivered and its handler is about to
\* return with one call and one request made.
C13_Witness ==
    \E t \in Transcribers :
        /\ nFinal = 1
        /\ cb[t].isFinal
        /\ cb[t].text = Hello
        /\ cb[t].pc = "unlock"
        /\ processCalls = <<Hello>>
        /\ Len(TranscriptRequests) = 1

\* A text, given as the pieces joined, is not the empty string.
NonEmptyText(pieces) == \E i \in 1..Len(pieces) : pieces[i] # ""

C16_SttErrorChangesNothing ==
    /\ [][nErrors' # nErrors =>
            /\ pendingTranscript' = pendingTranscript
            /\ transcriptMu' = transcriptMu
            /\ cb' = cb
            /\ ttsActive' = ttsActive
            /\ ttsRequests' = ttsRequests
            /\ pc' = pc
            /\ sttRunning' = sttRunning
            /\ closeCount' = closeCount]_vars
    /\ [](\A t \in Transcribers :
            (nErrors > 0 /\ cb[t].isFinal /\ cb[t].pc = "unlock"
                         /\ TrimSpace(cb[t].text) # <<>>) =>
                (cb[t].calls = 1 /\ cb[t].synths = 1))

\* C16 witness: the first STT event was an error, reported while the
\* greeting was in flight; the second, a Final " b ", was answered, and the
\* session is still waiting in its select.
C16_Witness ==
    \E t \in Transcribers :
        /\ nErrors = 1
        /\ cb[t].seq = 2
        /\ cb[t].isFinal
        /\ cb[t].pc = "unlock"
        /\ processCalls = << <<"b">> >>
        /\ Len(ttsRequests) = 2
        /\ pc = "select"
        /\ sttRunning

\* A SynthesizeToConnection call returns an error in this step.
SynthesizeFails ==
    /\ Len(ttsRequests') = Len(ttsRequests) + 1
    /\ ttsActive' = ttsActive

\* The synthesis in flight ends in this step (OnComplete or OnError hook).
SynthesisEnds ==
    /\ ttsRequests' = ttsRequests
    /\ ttsActive # 0
    /\ ttsActive' = 0
    /\ spc' = spc
    /\ pc' = pc

\* Requests made after the synthesis in flight did not replace it: their
\* SynthesizeToConnection calls failed.
FailureEvident == ttsActive # 0 /\ ttsActive < Len(ttsRequests)

\* C17: a failing SynthesizeToConnection call, for the greeting or for a
\* reply, and a synthesis ending on its OnError hook do not end the session:
\* handleSession goes on to (or stays in) its select, STT keeps running and
\* the connection stays open; utterances handled after a failure still get
\* their synthesis request.
C17_TtsFailureIsNotFatal ==
    /\ [][(SynthesizeFails \/ SynthesisEnds) =>
            /\ pc' = (IF Len(ttsRequests') > Len(ttsRequests)
                         /\ ttsRequests'[Len(ttsRequests')].by = "greeting"
                      THEN "select" ELSE pc)
            /\ sttRunning' = sttRunning
            /\ closeCount' = closeCount
            /\ closeCause' = closeCause
            /\ cleanupLog' = cleanupLog]_vars
    /\ [](\A t \in Transcribers :
            (FailureEvident /\ cb[t].isFinal /\ cb[t].pc = "unlock"
                            /\ TrimSpace(cb[t].text) # <<>>) =>
                (cb[t].calls = 1 /\ cb[t].synths = 1))

\* C17 witness: the greeting is in flight; the reply to a first Final failed,
\* the reply to a second Final was requested all the same (and failed too),
\* and the session waits in its select with the connection open.
C17_Witness ==
    \E t \in Transcribers :
        /\ FailureEvident
        /\ ttsActive = 1
        /\ Len(ttsRequests) = 3
        /\ ttsRequests[1].by = "greeting"
        /\ ttsRequests[2].by = "transcript"
        /\ ttsRequests[3].by = "transcript"
        /\ cb[t].seq = 2
        /\ cb[t].pc = "unlock"
        /\ pc = "select"
        /\ sttRunning
        /\ ~connClosed

\* Goroutine t is between transcriptMu.Lock() and the deferred Unlock().
InOnTranscriptBody(t) == cb[t].pc \in {"body", "process", "synth", "unlock"}

\* C19: pendingTranscript is read, appended to and reset only by the goroutine
\* that holds transcriptMu: whoever is past Lock() is the holder, so no two
\* goroutines are there together, and every step that uses the buffer is the
\* holder's, whatever OnSpeechStart and the cleanup are doing meanwhile.
C19_BufferOnlyUnderMutex ==
    /\ [](\A t \in Transcribers : InOnTranscriptBody(t) => transcriptMu = t)
    /\ [][\A t \in Transcribers :
            (cb[t].pc = "body" /\ cb'[t].pc # "body") =>
                (transcriptMu = t /\ transcriptMu' = t)]_vars
    /\ [][(pendingTranscript' # pendingTranscript \/ lastFinal' # lastFinal) =>
            \E t \in Transcribers :
                transcriptMu = t /\ cb[t].pc = "body" /\ cb'[t].pc # "body"]_vars

\* C19 witness: one OnTranscript is about to use the buffer, holding the mutex,
\* a second one delivered concurrently waits in Lock(), and the cleanup runs.
C19_Witness ==
    \E t1, t2 \in Transcribers :
        /\ t1 # t2
        /\ cb[t1].pc = "body"
        /\ cb[t1].isFinal
        /\ transcriptMu = t1
        /\ cb[t2].pc = "lock"
        /\ pc = "ttsStop"

\* C20: the recognition events of the session are handled one at a time and in
\* delivery order: no OnSpeechStart is between IsActive() and Stop() while an
\* OnTranscript is past Lock(), and no Final goes on to processUserInput while
\* a Final delivered before it, with text of its own, still waits its turn.
C20_SingleOrderedProcessingPoint ==
    /\ \A t \in Transcribers : ~(spc = "stop" /\ InOnTranscriptBody(t))
    /\ \A t1, t2 \in Transcribers :
          ~ /\ cb[t1].isFinal
            /\ cb[t2].isFinal
            /\ cb[t1].seq < cb[t2].seq
            /\ cb[t1].pc = "lock"
            /\ TrimSpace(cb[t1].text) # <<>>
            /\ cb[t2].pc \in {"process", "synth", "unlock"}

\* The connection was closed, and not by the cleanup: the STT pipeline could
\* not be started (lines 282-287).
SttStartFailed ==
    /\ connClosed
    /\ \A i \in 1..Len(cleanupLog) : cleanupLog[i] # "connClose"

\* C23: when sttPipeline.StartFromConnection fails the session closes its
\* connection and handleSession returns at once: from then on no greeting and
\* no other synthesis is ever requested, no transcript is handled, and
\* neither sttPipeline.Stop() nor ttsPipeline.Stop() is called.
C23_SttStartFailureEndsSession ==
    SttStartFailed =>
        /\ pc = "returned"
        /\ closeCount = 1
        /\ ttsRequests = <<>>
        /\ ttsActive = 0
        /\ processCalls = <<>>
        /\ cleanupLog = <<>>
        /\ ~sttRunning
        /\ nEvents = 0
        /\ spc = "idle"

\* C23 witness: the start of STT failed; later the process was cancelled and
\* still nothing more has happened in the session.
C23_Witness ==
    /\ SttStartFailed
    /\ pc = "returned"
    /\ closeCause = "none"
    /\ ctxCancelled
    /\ ttsRequests = <<>>

\* C24: whichever way handleSession goes (STT start failure, cancelled
\* context, transport event) the connection is never closed twice and is
\* closed once handleSession has returned; and once the process-wide context
\* is cancelled the session's connection eventually is closed.
C24_ConnectionClosedExactlyOnce ==
    /\ [](closeCount <= 1)
    /\ [](pc = "returned" => closeCount = 1)
    /\ ctxCancelled ~> (pc = "returned" /\ closeCount = 1)

\* C24 witness: handleSession has returned after a transport event, the
\* context never having been cancelled, with the connection closed once.
C24_Witness ==
    /\ pc = "returned"
    /\ closeCause = "Other"
    /\ ~ctxCancelled
    /\ closeCount = 1
    /\ cleanupLog = CleanupOrder

\* The keywords of the six classes of reply, in the order of the claim.
Keywords ==
    << { <<"h","e","l","l","o">>, <<"h","i">> },
       { <<"h","o","w"," ","a","r","e"," ","y","o","u">> },
       { <<"g","o","o","d","b","y","e">>, <<"b","y","e">> },
       { <<"h","e","l","p">> },
       { <<"w","e","a","t","h","e","r">> },
       { <<"t","i","m","e">> } >>

ClassReplies == <<HelloReply, HowReply, ByeReply, HelpReply, WeatherReply, TimeReply>>

\* The classes whose keywords the lower-cased input contains.
ClassesIn(in) ==
    { k \in 1..Len(Keywords) : \E w \in Keywords[k] : Contains(ToLower(in), w) }

\* The reply the claim gives to an input: the one of its earliest class, or
\* the echo of the lower-cased input.
ExpectedReply(in) ==
    IF ClassesIn(in) = {} THEN EchoReply(ToLower(in))
    ELSE ClassReplies[CHOOSE k \in ClassesIn(in) : \A j \in ClassesIn(in) : k <= j]

\* The input with every letter in upper case.
ToUpper(s) ==
    [i \in 1..Len(s) |->
        IF \E j \in 1..Len(Lower) : Lower[j] = s[i]
        THEN Upper[CHOOSE j \in 1..Len(Lower) : Lower[j] = s[i]]
        ELSE s[i]]

\* C25: the reply to an input is that of the earliest class of which the
\* lower-cased input contains a keyword, and the echo of the lower-cased input
\* when it contains none; the input written all in lower case and all in
\* upper case gets the same reply, so inputs that differ only in letter case
\* do; and the reply is never empty.
C25_FirstMatchInPriorityOrder ==
    \A t \in Transcribers :
        cb[t].calls = 1 =>
            /\ cb[t].response = ExpectedReply(cb[t].fullText)
            /\ processUserInput(ToLower(cb[t].fullText)) = cb[t].response
            /\ processUserInput(ToUpper(cb[t].fullText)) = cb[t].response
            /\ cb[t].response # <<>>
            /\ NonEmptyText(cb[t].response)

\* C25 witness: "BYE Hi" holds keywords of the third and of the first class
\* and was answered with the reply of the first.
C25_Witness ==
    \E t \in Transcribers :
        /\ cb[t].calls = 1
        /\ cb[t].fullText = <<"B","Y","E"," ","H","i">>
        /\ ClassesIn(cb[t].fullText) = {1, 3}
        /\ cb[t].response = HelloReply
        /\ cb[t].synths = 1

\* What belongs to the session of connection c: handleSession's position,
\* its OnTranscript, its buffer and mutex, its two pipelines, its connection.
SessionState(c) ==
    <<sess[c].pc, sess[c].ot, sess[c].buf, sess[c].mu, sess[c].stt,
      sess[c].tts, sess[c].closed>>

\* C21: a connection the transport delivers gets one session, started once,
\* with a buffer, a mutex and pipelines of its own; whatever happens in one
\* session (a transcript, a barge-in, a disconnect, its cleanup) leaves the
\* buffer, the synthesis in flight and the lifecycle of every other session
\* as they are, and two sessions may hold their mutexes at the same time.
C21_SessionsAreIndependent ==
    /\ [][\A c \in Conns :
            (sess'[c] # sess[c] /\ SessionEvent(c)) =>
                \A d \in Conns \ {c} : SessionState(d)' = SessionState(d)]_vars
    /\ [][\A c \in Conns :
            SessionState(c)' # SessionState(c) =>
                \A d \in Conns \ {c} : SessionState(d)' = SessionState(d)]_vars
    /\ [](\A c \in Conns : (sess[c].conn = "session") <=> (sess[c].pc # "none"))
    /\ [][\A c \in Conns :
            /\ sess[c].conn = "session" => sess'[c].conn = "session"
            /\ sess'[c].pc = "startSTT" => sess[c].pc \in {"none", "startSTT"}]_vars

\* C21 witness: two sessions at once; the first holds its mutex with an
\* utterance in its buffer and a synthesis in flight and is being cleaned up
\* after a disconnect, the second holds its own mutex with its buffer still
\* empty, its synthesis stopped by a barge-in, and goes on listening.
C21_Witness ==
    \E c, d \in Conns :
        /\ c # d
        /\ sess[c].pc = "sttStop"
        /\ sess[c].ot = "flush"
        /\ sess[c].mu
        /\ sess[c].buf = Said
        /\ sess[c].tts
        /\ sess[d].pc = "select"
        /\ sess[d].ot = "write"
        /\ sess[d].mu
        /\ sess[d].buf = <<>>
        /\ ~sess[d].tts
        /\ ~ctxCancelled

\* C22: in the TTS-only agent a session whose connection the transport has
\* disconnected eventually closes the connection and handleSession returns,
\* just as it does once the process is cancelled.
C22_TtsOnlyDisconnectEndsSession ==
    \A c \in Conns :
        /\ (sess[c].conn = "disconnected") ~>
               (sess[c].pc = "returned" /\ sess[c].closed = 1)
        /\ (ctxCancelled /\ sess[c].pc # "none") ~>
               (sess[c].pc = "returned" /\ sess[c].closed = 1)

====
